---------------------------- MODULE Spec2Model ----------------------------
(***************************************************************************)
(* Model of bot.py: the Telegram relay that streams a completion from the  *)
(* OpenRouter endpoint, aggregates the content deltas, strips the          *)
(* <think>...</think> regions unless the user asked to see them, and       *)
(* replies in slices of at most 4096 characters.                           *)
(*                                                                         *)
(* A text is a sequence of one-character strings.  The fixed notices the   *)
(* program sends are texts of one symbol each: they hold no marker and no  *)
(* whitespace, which is all the filter and the slicing read of them.       *)
(***************************************************************************)
EXTENDS Integers, Sequences, FiniteSets, TLC

(***************************************************************************)
(* Bounds of the model.                                                    *)
(***************************************************************************)
MaxLines == 2      \* stream lines consumed by one completion call (Spec)
MaxAggLines == 3   \* stream lines consumed by one completion call (AggSpec)
MaxToggles == 2    \* /think commands counted per user
MaxSegments == 2   \* full segments of the longest delivered text (SplitSpec)
Slack == 6         \* lengths tried on each side of a multiple of the limit (SplitSpec)

(***************************************************************************)
(* Program constants.                                                      *)
(***************************************************************************)
TELEGRAM_LIMIT == 4096

Users == {1, 2}

----------------------------------------------------------------------------
(***************************************************************************)
(* Texts.                                                                  *)
(***************************************************************************)
OPEN_TAG == <<"<", "t", "h", "i", "n", "k", ">">>
CLOSE_TAG == <<"<", "/", "t", "h", "i", "n", "k", ">">>
OPEN_TAG_UPPER == <<"<", "T", "H", "I", "N", "K", ">">>
OPEN_HEAD == <<"<", "t", "h", "i">>
OPEN_TAIL == <<"n", "k", ">">>

MSG_PROCESSING == <<"PROCESSING">>
MSG_NO_API_KEY == <<"NO_API_KEY">>
MSG_API_STATUS == <<"API_STATUS_ERROR">>
MSG_API_ERROR == <<"API_CLIENT_ERROR">>
MSG_UNEXPECTED == <<"UNEXPECTED_ERROR">>
MSG_NO_MODEL_ANSWER == <<"NO_ANSWER_FROM_MODEL">>
MSG_ONLY_THOUGHTS == <<"ONLY_HIDDEN_THOUGHTS">>
MSG_NO_ANSWER == <<"NO_ANSWER">>

IsSpace(c) == c \in {" ", "\n"}

Lower(c) ==
  CASE c = "T" -> "t"
    [] c = "H" -> "h"
    [] c = "I" -> "i"
    [] c = "N" -> "n"
    [] c = "K" -> "k"
    [] OTHER -> c

RECURSIVE Concat(_)
Concat(ss) == IF ss = <<>> THEN <<>> ELSE Head(ss) \o Concat(Tail(ss))

----------------------------------------------------------------------------
(***************************************************************************)
(* re.sub(r'<think>.*?</think>\s*', '', text, DOTALL | IGNORECASE).strip() *)
(***************************************************************************)
MatchAt(s, i, pat) ==
  /\ i + Len(pat) - 1 <= Len(s)
  /\ \A k \in 1..Len(pat) : Lower(s[i + k - 1]) = pat[k]

\* index of the first closing marker starting at or after i, 0 when none
FindClose(s, i) ==
  LET hits == {j \in i..Len(s) : MatchAt(s, j, CLOSE_TAG)}
  IN IF hits = {} THEN 0 ELSE CHOOSE j \in hits : \A k \in hits : j <= k

\* index of the first non-whitespace character at or after i, Len(s)+1 when none
SkipSpace(s, i) ==
  LET rest == {j \in i..Len(s) : ~IsSpace(s[j])}
  IN IF rest = {} THEN Len(s) + 1 ELSE CHOOSE j \in rest : \A k \in rest : j <= k

\* re.sub: scanning from the left, a region that opens at i and closes later is
\* dropped up to the end of the whitespace after its first closing marker;
\* any other character is kept.
re_sub(s) ==
  LET sub[i \in 1..(Len(s) + 1)] ==
        IF i > Len(s) THEN <<>>
        ELSE IF MatchAt(s, i, OPEN_TAG) /\ FindClose(s, i + Len(OPEN_TAG)) # 0
             THEN sub[SkipSpace(s, FindClose(s, i + Len(OPEN_TAG)) + Len(CLOSE_TAG))]
             ELSE <<s[i]>> \o sub[i + 1]
  IN sub[1]

strip(s) ==
  LET keep == {j \in 1..Len(s) : ~IsSpace(s[j])}
  IN IF keep = {} THEN <<>>
     ELSE SubSeq(s, CHOOSE j \in keep : \A k \in keep : j <= k,
                    CHOOSE j \in keep : \A k \in keep : j >= k)

\* The one member of a singleton.
Only(S) == CHOOSE x \in S : TRUE

\* Lines 132 and 173.  Each stage is evaluated once, on the value of the stage before.
ThoughtFilter(text) == Only({strip(r) : r \in {re_sub(t) : t \in {text}}})

\* Lines 131-132 and 171-173: the text is filtered unless thoughts are shown.
Filter(t, s) == IF s THEN t ELSE ThoughtFilter(t)

----------------------------------------------------------------------------
(***************************************************************************)
(* Stream lines, classified by what lines 109-123 do with them.            *)
(*   other      does not start with "data: " (empty, comment, keep-alive)  *)
(*   done       "data: [DONE]"                                             *)
(*   bad_json   json.loads raises JSONDecodeError                          *)
(*   bad_shape  valid JSON of another shape: .get or [0] raises            *)
(*   no_content valid frame without choices, delta or a non-empty content  *)
(*   delta      valid frame carrying a non-empty content                   *)
(*   bad_utf8   bytes that line.decode("utf-8") rejects                    *)
(***************************************************************************)
Line(k) == [kind |-> k, content |-> <<>>]
Delta(c) == [kind |-> "delta", content |-> c]

THINK_ONLY == OPEN_TAG \o <<"x">> \o CLOSE_TAG
NESTED == OPEN_HEAD \o OPEN_TAG \o <<"a">> \o CLOSE_TAG \o OPEN_TAIL \o <<"b">> \o CLOSE_TAG

THINK_ANSWER == OPEN_TAG_UPPER \o <<"x">> \o CLOSE_TAG \o <<" ", "\n", "b">>

SpecLines == {Line("done"), Delta(THINK_ONLY), Delta(NESTED), Delta(THINK_ANSWER)}
AggLines == {Line("other"), Line("done"), Line("bad_json"), Line("bad_shape"),
             Line("no_content"), Line("bad_utf8"), Delta(<<"a">>), Delta(<<"b">>)}

MessageTexts == {<<>>, <<"h", "i">>}

\* ProcessLine without the break of line 113: the sentinel is skipped like a comment.
ProcessLineNoBreak(full, line) ==
  CASE line.kind = "bad_utf8" -> [full |-> full, exit |-> "raise"]
    [] line.kind = "delta" -> [full |-> full \o line.content, exit |-> "continue"]
    [] OTHER -> [full |-> full, exit |-> "continue"]

\* ProcessLine without the try of lines 114-123: a decoding error leaves the loop.
ProcessLineNoTry(full, line) ==
  CASE line.kind \in {"bad_utf8", "bad_json", "bad_shape"} -> [full |-> full, exit |-> "raise"]
    [] line.kind = "done" -> [full |-> full, exit |-> "break"]
    [] line.kind = "delta" -> [full |-> full \o line.content, exit |-> "continue"]
    [] OTHER -> [full |-> full, exit |-> "continue"]

\* One iteration of the loop body of lines 108-123: the new aggregate and how
\* the iteration leaves the loop ("continue", "break", or "raise" out of the try).
ProcessLine(full, line) ==
  CASE line.kind = "bad_utf8" -> [full |-> full, exit |-> "raise"]
    [] line.kind = "other" -> [full |-> full, exit |-> "continue"]
    [] line.kind = "done" -> [full |-> full, exit |-> "break"]
    [] line.kind = "bad_json" -> [full |-> full, exit |-> "continue"]
    [] line.kind = "bad_shape" -> [full |-> full, exit |-> "continue"]
    [] line.kind = "no_content" -> [full |-> full, exit |-> "continue"]
    [] line.kind = "delta" -> [full |-> full \o line.content, exit |-> "continue"]

\* The aggregate of the loop of lines 108-123 over a whole stream.
RECURSIVE Loop(_, _)
Loop(full, ls) ==
  IF ls = <<>> THEN full
  ELSE LET r == ProcessLine(full, Head(ls))
       IN IF r.exit = "continue" THEN Loop(r.full, Tail(ls)) ELSE r.full

\* Lines 130-133: what invoke_llm_api returns once the loop has ended.
ApiReturn(full, show) ==
  LET filtered == IF ~show THEN ThoughtFilter(full) ELSE full
  IN IF filtered # <<>> THEN filtered ELSE MSG_NO_MODEL_ANSWER

\* ApiFailure that hands back what was aggregated so far.
ApiFailurePartial(full, error) == full

\* Lines 124-129: what invoke_llm_api returns when the request or the stream raises.
ApiFailure(full, error) ==
  IF error = "ClientError" THEN MSG_API_ERROR ELSE MSG_UNEXPECTED

\* Line 158.
GetShowThoughts(prefs, u) ==
  IF u \in DOMAIN prefs THEN prefs[u].show_thoughts ELSE FALSE

\* Toggle that rebuilds the dict with the one entry.
ToggleReplace(prefs, u) ==
  [v \in {u} |-> [show_thoughts |-> ~(IF u \in DOMAIN prefs THEN prefs[u].show_thoughts ELSE FALSE)]]

\* Lines 144-146.
Toggle(prefs, u) ==
  LET current_pref == IF u \in DOMAIN prefs THEN prefs[u] ELSE [show_thoughts |-> FALSE]
      new_pref == ~current_pref.show_thoughts
  IN [v \in DOMAIN prefs \cup {u} |->
        IF v = u THEN [show_thoughts |-> new_pref] ELSE prefs[v]]

\* Line 154.
HasText(t) == t # <<>>

\* Slice one character short: response_text[i:i+4095].
SliceShort(t, i) ==
  SubSeq(t, i + 1, IF i + TELEGRAM_LIMIT - 1 < Len(t) THEN i + TELEGRAM_LIMIT - 1 ELSE Len(t))

\* Line 181: response_text[i:i+4096], i counted from 0.
Slice(t, i) ==
  SubSeq(t, i + 1, IF i + TELEGRAM_LIMIT < Len(t) THEN i + TELEGRAM_LIMIT ELSE Len(t))

\* Line 180: the step of range(0, len(response_text), 4096).
NextOffset(i) == i + TELEGRAM_LIMIT

----------------------------------------------------------------------------
(***************************************************************************)
(* State.  The runs of handle_message share nothing but user_prefs, which  *)
(* they only read, once (line 158).  The model follows one run at a time,  *)
(* of any user, and lets the /think commands of every user interleave with *)
(* it at each of its awaits.                                               *)
(***************************************************************************)
VARIABLES
  user_prefs,          \* the module-level dict: user id -> {"show_thoughts": bool}
  OPENROUTER_API_KEY,  \* whether the environment set the key
  pc,                  \* the await at which handle_message is suspended
  user_id,             \* message.from_user.id of the message being handled
  message_text,        \* message.text of the message being handled
  show_thoughts,       \* the local of handle_message, passed to invoke_llm_api
  full_response,       \* the aggregate of invoke_llm_api when its loop was last left
  response_text,       \* the local of handle_message
  offset,              \* the loop variable i of line 180
  replies,             \* texts sent to the user while handling the message, in send order
  deleted,             \* whether the processing message was deleted
  lines,               \* stream lines the completion call consumed, in arrival order
  requests,            \* POST requests issued for the message
  api_outcome,         \* how invoke_llm_api ended
  failed_at,           \* the await of handle_message that raised, "none" if none did
  pref_at_start,       \* the stored preference of user_id when the message arrived
  toggles,             \* /think commands executed by each user
  toggle_status        \* the status the last /think command of each user replied with

vars == <<user_prefs, OPENROUTER_API_KEY, pc, user_id, message_text, show_thoughts,
          full_response, response_text, offset, replies, deleted, lines,
          requests, api_outcome, failed_at, pref_at_start, toggles, toggle_status>>

handler_vars == <<pc, user_id, message_text, show_thoughts, full_response,
                  response_text, offset, replies, deleted, lines, requests,
                  api_outcome, failed_at, pref_at_start>>

pref_vars == <<user_prefs, toggles, toggle_status>>

Init ==
  /\ user_prefs = <<>>
  /\ OPENROUTER_API_KEY \in BOOLEAN
  /\ pc = "idle"
  /\ user_id = 1
  /\ message_text = <<>>
  /\ show_thoughts = FALSE
  /\ full_response = <<>>
  /\ response_text = <<>>
  /\ offset = 0
  /\ replies = <<>>
  /\ deleted = FALSE
  /\ lines = <<>>
  /\ requests = 0
  /\ api_outcome = "none"
  /\ failed_at = "none"
  /\ pref_at_start = FALSE
  /\ toggles = [u \in Users |-> 0]
  /\ toggle_status = [u \in Users |-> "none"]

\* The await of handle_message at pc raises: nothing catches it.
Crash(where) ==
  /\ pc' = "crashed"
  /\ failed_at' = where

\* invoke_llm_api has returned text r; handle_message awaits delete_message (line 166).
Returned(r, outcome) ==
  /\ response_text' = r
  /\ api_outcome' = outcome
  /\ pc' = "delete"

\* toggle_think, lines 141-149.
ToggleThink(u) ==
  /\ toggles[u] < MaxToggles
  /\ user_prefs' = Toggle(user_prefs, u)
  /\ toggles' = [toggles EXCEPT ![u] = @ + 1]
  /\ toggle_status' = [toggle_status EXCEPT ![u] =
                         IF Toggle(user_prefs, u)[u].show_thoughts THEN "on" ELSE "off"]
  /\ UNCHANGED <<OPENROUTER_API_KEY, handler_vars>>

\* handle_message, lines 152-161: a message arrives; up to the await of the first reply.
HandleMessage(u, t) ==
  /\ pc \in {"idle", "done", "crashed"}
  /\ user_id' = u
  /\ message_text' = t
  /\ show_thoughts' = IF HasText(t) THEN GetShowThoughts(user_prefs, u) ELSE FALSE
  /\ pref_at_start' = (u \in DOMAIN user_prefs /\ user_prefs[u].show_thoughts)
  /\ pc' = IF HasText(t) THEN "indicator" ELSE "done"
  /\ full_response' = <<>>
  /\ response_text' = <<>>
  /\ offset' = 0
  /\ replies' = <<>>
  /\ deleted' = FALSE
  /\ lines' = <<>>
  /\ requests' = 0
  /\ api_outcome' = "none"
  /\ failed_at' = "none"
  /\ UNCHANGED <<OPENROUTER_API_KEY, pref_vars>>

\* Line 161 completes, then lines 163 and 73-103 up to the await of the POST.
SendIndicator(ok) ==
  /\ pc = "indicator"
  /\ IF ~ok
     THEN /\ Crash("indicator")
          /\ UNCHANGED <<replies, response_text, api_outcome, requests>>
     ELSE /\ replies' = Append(replies, MSG_PROCESSING)
          /\ failed_at' = failed_at
          /\ IF ~OPENROUTER_API_KEY
             THEN /\ Returned(MSG_NO_API_KEY, "no_key")
                  /\ requests' = requests
             ELSE /\ pc' = "post"
                  /\ requests' = requests + 1
                  /\ UNCHANGED <<response_text, api_outcome>>
  /\ UNCHANGED <<OPENROUTER_API_KEY, pref_vars, user_id, message_text, show_thoughts,
                 full_response, offset, deleted, lines, pref_at_start>>

\* Lines 103-107 and 124-129: the POST answers, or raises.
Post(answer) ==
  /\ pc = "post"
  /\ CASE answer = "200" ->
            /\ pc' = "stream"
            /\ UNCHANGED <<response_text, api_outcome>>
       [] answer = "status" -> Returned(MSG_API_STATUS, "bad_status")
       [] OTHER -> Returned(ApiFailure(full_response, answer), "request_failed")
  /\ UNCHANGED <<OPENROUTER_API_KEY, pref_vars, user_id, message_text, show_thoughts,
                 full_response, offset, replies, deleted, lines, requests, failed_at,
                 pref_at_start>>

\* Lines 108-123 for one line of the body, and lines 130-133 if it ends the loop.
StreamLine(line, max) ==
  /\ pc = "stream"
  /\ Len(lines) < max
  /\ lines' = Append(lines, line)
  /\ LET r == ProcessLine(full_response, line)
     IN /\ full_response' = r.full
        /\ CASE r.exit = "continue" -> UNCHANGED <<pc, response_text, api_outcome>>
             [] r.exit = "break" -> Returned(ApiReturn(r.full, show_thoughts), "returned")
             [] r.exit = "raise" -> Returned(ApiFailure(r.full, "Exception"), "decode_failed")
  /\ UNCHANGED <<OPENROUTER_API_KEY, pref_vars, user_id, message_text, show_thoughts,
                 offset, replies, deleted, requests, failed_at, pref_at_start>>

\* The body ends without a sentinel: the loop of line 108 ends, then lines 130-133.
StreamEnd ==
  /\ pc = "stream"
  /\ Returned(ApiReturn(full_response, show_thoughts), "returned")
  /\ UNCHANGED <<OPENROUTER_API_KEY, pref_vars, user_id, message_text, show_thoughts,
                 full_response, offset, replies, deleted, lines, requests, failed_at,
                 pref_at_start>>

\* The connection fails while the body is read: lines 124-129.
StreamFail(error) ==
  /\ pc = "stream"
  /\ Returned(ApiFailure(full_response, error), "stream_failed")
  /\ UNCHANGED <<OPENROUTER_API_KEY, pref_vars, user_id, message_text, show_thoughts,
                 full_response, offset, replies, deleted, lines, requests, failed_at,
                 pref_at_start>>

\* HandlerFlag that looks the preference up again at line 171.
HandlerFlagReread == GetShowThoughts(user_prefs, user_id)

\* Line 171: the flag that decides whether handle_message filters.
HandlerFlag == show_thoughts

\* Line 180: range(0, len(text), 4096) is empty for an empty text.
LoopEntry(text) == IF 0 < Len(text) THEN "send" ELSE "done"

\* FinalText without the check of lines 175-177.
FinalTextNoCheck(r, show) ==
  IF r # <<>>
  THEN LET filtered == IF ~show THEN ThoughtFilter(r) ELSE r
       IN [pc |-> LoopEntry(filtered), text |-> filtered]
  ELSE [pc |-> "notice", text |-> MSG_NO_ANSWER]

\* Lines 169-183 up to the first await: the text to deliver and the reply awaited.
FinalText(r, show) ==
  IF r # <<>>
  THEN LET filtered == IF ~show THEN ThoughtFilter(r) ELSE r
       IN IF filtered = <<>>
          THEN [pc |-> "notice", text |-> MSG_ONLY_THOUGHTS]
          ELSE [pc |-> LoopEntry(filtered), text |-> filtered]
  ELSE [pc |-> "notice", text |-> MSG_NO_ANSWER]

\* Line 166 completes, then lines 169-183 up to the await of the first final reply.
DeleteIndicator(ok) ==
  /\ pc = "delete"
  /\ IF ~ok
     THEN /\ Crash("delete")
          /\ UNCHANGED <<response_text, deleted>>
     ELSE /\ deleted' = TRUE
          /\ failed_at' = failed_at
          /\ LET f == FinalText(response_text, HandlerFlag)
             IN /\ pc' = f.pc
                /\ response_text' = f.text
  /\ UNCHANGED <<OPENROUTER_API_KEY, pref_vars, user_id, message_text, show_thoughts,
                 full_response, offset, replies, lines, requests, api_outcome,
                 pref_at_start>>

\* Lines 176 and 183: the reply carrying a notice completes.
SendNotice(ok) ==
  /\ pc = "notice"
  /\ IF ~ok
     THEN /\ Crash("final")
          /\ replies' = replies
     ELSE /\ replies' = Append(replies, response_text)
          /\ pc' = "done"
          /\ failed_at' = failed_at
  /\ UNCHANGED <<OPENROUTER_API_KEY, pref_vars, user_id, message_text, show_thoughts,
                 full_response, response_text, offset, deleted, lines, requests,
                 api_outcome, pref_at_start>>

\* Lines 180-181: one iteration of the delivery loop completes.
SendSegment(ok) ==
  /\ pc = "send"
  /\ IF ~ok
     THEN /\ Crash("final")
          /\ UNCHANGED <<replies, offset>>
     ELSE /\ replies' = Append(replies, Slice(response_text, offset))
          /\ offset' = NextOffset(offset)
          /\ pc' = IF NextOffset(offset) < Len(response_text) THEN "send" ELSE "done"
          /\ failed_at' = failed_at
  /\ UNCHANGED <<OPENROUTER_API_KEY, pref_vars, user_id, message_text, show_thoughts,
                 full_response, response_text, deleted, lines, requests, api_outcome,
                 pref_at_start>>

Next ==
  \/ \E u \in Users : ToggleThink(u)
  \/ \E u \in Users, t \in MessageTexts : HandleMessage(u, t)
  \/ \E ok \in BOOLEAN : SendIndicator(ok)
  \/ \E answer \in {"200", "status", "ClientError", "Exception"} : Post(answer)
  \/ \E line \in SpecLines : StreamLine(line, MaxLines)
  \/ StreamEnd
  \/ \E error \in {"ClientError", "Exception"} : StreamFail(error)
  \/ \E ok \in BOOLEAN : DeleteIndicator(ok)
  \/ \E ok \in BOOLEAN : SendNotice(ok)
  \/ \E ok \in BOOLEAN : SendSegment(ok)

Spec == Init /\ [][Next]_vars

----------------------------------------------------------------------------
(***************************************************************************)
(* FairSpec: the event loop resumes a suspended handle_message once the    *)
(* awaited operation has completed or failed.                              *)
(***************************************************************************)
HandlerStep ==
  \/ \E ok \in BOOLEAN : SendIndicator(ok)
  \/ \E answer \in {"200", "status", "ClientError", "Exception"} : Post(answer)
  \/ \E line \in SpecLines : StreamLine(line, MaxLines)
  \/ StreamEnd
  \/ \E error \in {"ClientError", "Exception"} : StreamFail(error)
  \/ \E ok \in BOOLEAN : DeleteIndicator(ok)
  \/ \E ok \in BOOLEAN : SendNotice(ok)
  \/ \E ok \in BOOLEAN : SendSegment(ok)

FairSpec == Spec /\ WF_vars(HandlerStep)

(***************************************************************************)
(* AggSpec: one completion call from the moment the endpoint answered 200, *)
(* fed every stream of at most MaxAggLines lines of AggLines.              *)
(***************************************************************************)
AggInit ==
  /\ show_thoughts \in BOOLEAN
  /\ user_prefs = IF show_thoughts THEN [u \in {1} |-> [show_thoughts |-> TRUE]] ELSE <<>>
  /\ toggles = [u \in Users |-> IF u = 1 /\ show_thoughts THEN 1 ELSE 0]
  /\ toggle_status = [u \in Users |-> IF u = 1 /\ show_thoughts THEN "on" ELSE "none"]
  /\ pref_at_start = show_thoughts
  /\ OPENROUTER_API_KEY = TRUE
  /\ pc = "stream"
  /\ user_id = 1
  /\ message_text = <<"h", "i">>
  /\ full_response = <<>>
  /\ response_text = <<>>
  /\ offset = 0
  /\ replies = <<MSG_PROCESSING>>
  /\ deleted = FALSE
  /\ lines = <<>>
  /\ requests = 1
  /\ api_outcome = "none"
  /\ failed_at = "none"

AggNext ==
  \/ \E line \in AggLines : StreamLine(line, MaxAggLines)
  \/ StreamEnd
  \/ \E error \in {"ClientError", "Exception"} : StreamFail(error)

AggSpec == AggInit /\ [][AggNext]_vars

(***************************************************************************)
(* SplitSpec: the delivery loop of lines 180-181 from its first iteration, *)
(* for texts whose lengths lie around the multiples of the limit.  The     *)
(* text came as one delta to a user who has thoughts shown.                *)
(***************************************************************************)
SplitLengths ==
  {n \in 1..(MaxSegments * TELEGRAM_LIMIT + Slack) :
     \E k \in 0..MaxSegments : \E d \in (0 - Slack)..Slack : n = k * TELEGRAM_LIMIT + d}

SplitAlphabet == <<"a", "b", "c", "d", "e">>

LongText(n) == [j \in 1..n |-> SplitAlphabet[(j % 5) + 1]]

SplitInit ==
  /\ \E n \in SplitLengths :
       /\ response_text = LongText(n)
       /\ full_response = LongText(n)
       /\ lines = <<Delta(LongText(n))>>
  /\ show_thoughts = TRUE
  /\ user_prefs = [u \in {1} |-> [show_thoughts |-> TRUE]]
  /\ toggles = [u \in Users |-> IF u = 1 THEN 1 ELSE 0]
  /\ toggle_status = [u \in Users |-> IF u = 1 THEN "on" ELSE "none"]
  /\ pref_at_start = TRUE
  /\ OPENROUTER_API_KEY = TRUE
  /\ pc = "send"
  /\ user_id = 1
  /\ message_text = <<"h", "i">>
  /\ offset = 0
  /\ replies = <<MSG_PROCESSING>>
  /\ deleted = TRUE
  /\ requests = 1
  /\ api_outcome = "returned"
  /\ failed_at = "none"

SplitNext == \E ok \in BOOLEAN : SendSegment(ok)

SplitSpec == SplitInit /\ [][SplitNext]_vars

----------------------------------------------------------------------------
(***************************************************************************)
(* Properties.                                                             *)
(***************************************************************************)
FinalReplies == Tail(replies)

Last(ss) == ss[Len(ss)]

\* C1: when the aggregate is one thinking region and show_thoughts is false,
\* the handled message ends with the "only hidden reasoning" notice as its one
\* final reply.
C1_OnlyThoughtsNotice ==
  (pc = "done" /\ api_outcome = "returned" /\ ~show_thoughts /\ full_response = THINK_ONLY)
    => FinalReplies = <<MSG_ONLY_THOUGHTS>>

\* The contents of the content-carrying frames before the first sentinel, in order.
RECURSIVE ExpectedAggregate(_)
ExpectedAggregate(ls) ==
  IF ls = <<>> \/ Head(ls).kind = "done" THEN <<>>
  ELSE (IF Head(ls).kind = "delta" THEN Head(ls).content ELSE <<>>)
         \o ExpectedAggregate(Tail(ls))

\* C2: at every point of a completion call whose stream has not failed, the
\* aggregate is the concatenation, in arrival order, of the deltas of the
\* content frames that arrived before the first sentinel; the sentinel ends
\* the call, so nothing after it is read, and the call returns that aggregate
\* (filtered, or the fallback).
C2_Aggregate ==
  /\ api_outcome \in {"none", "returned"} => full_response = ExpectedAggregate(lines)
  /\ api_outcome = "returned" =>
       response_text = ApiReturn(ExpectedAggregate(lines), show_thoughts)
  /\ \A k \in 1..(Len(lines) - 1) : lines[k].kind # "done"

C2_Witness ==
  /\ api_outcome = "returned"
  /\ Len(lines) = 3
  /\ lines[1] = Delta(<<"a">>)
  /\ lines[2] = Delta(<<"b">>)
  /\ lines[3].kind = "done"
  /\ full_response = <<"a", "b">>

Undecodable(line) == line.kind \in {"bad_json", "bad_shape"}

Decodable(line) == ~Undecodable(line)

C4_Idempotent ==
  (api_outcome = "returned" /\ deleted /\ Filter(full_response, show_thoughts) # <<>>)
    => (pc # "notice" /\ response_text = Filter(full_response, show_thoughts))

\* Whether the delivery loop of lines 180-181 has been entered.
Delivering == pc = "send" \/ offset > 0

\* C5: the replies of the delivery loop are non-empty slices of at most 4096
\* characters whose concatenation, in send order, is the part of the text
\* before the loop's offset, and the whole text once the loop has ended.
C5_Segments ==
  Delivering =>
    /\ \A k \in 1..Len(FinalReplies) :
         Len(FinalReplies[k]) >= 1 /\ Len(FinalReplies[k]) <= 4096
    /\ Concat(FinalReplies) =
         SubSeq(response_text, 1,
                IF offset < Len(response_text) THEN offset ELSE Len(response_text))
    /\ pc = "done" => Concat(FinalReplies) = response_text
    /\ pc = "send" => offset < Len(response_text)

C5_Witness ==
  /\ pc = "done"
  /\ Len(response_text) = 2 * TELEGRAM_LIMIT + 1
  /\ Len(FinalReplies) = 3
  /\ Len(FinalReplies[3]) = 1

\* C6: the preference looked up for a user is true exactly when the user has
\* run an odd number of /think commands, whatever the other users and the
\* message handlers did.
C6_ToggleParity ==
  \A u \in Users : GetShowThoughts(user_prefs, u) = (toggles[u] % 2 = 1)

C6_Witness ==
  /\ toggles[1] = 1
  /\ toggles[2] = 2
  /\ pc = "stream"
  /\ user_id = 1
  /\ GetShowThoughts(user_prefs, 1)
  /\ ~GetShowThoughts(user_prefs, 2)

\* C7: a failure of sending or of deleting the processing indicator does not
\* escape handle_message.
C7_BestEffort == failed_at \notin {"indicator", "delete"}

ErrorNotices == {MSG_API_ERROR, MSG_UNEXPECTED}

\* C8: when the connection fails while the stream is consumed, one request was
\* issued and the only reply after the indicator is an error notice: nothing
\* aggregated before the failure is delivered.
C8_AllOrNothing ==
  api_outcome = "stream_failed" =>
    /\ requests = 1
    /\ response_text \in ErrorNotices
    /\ Len(FinalReplies) <= 1
    /\ \A k \in 1..Len(FinalReplies) : FinalReplies[k] \in ErrorNotices
    /\ pc = "done" => Len(FinalReplies) = 1

C8_Witness ==
  /\ api_outcome = "stream_failed"
  /\ full_response = THINK_ANSWER
  /\ pc = "done"
  /\ FinalReplies = <<MSG_API_ERROR>>

\* What a returned aggregate is delivered as under flag s at both filtering sites.
Delivered(agg, s) == FinalText(ApiReturn(agg, s), s).text

\* C9: the reply to a message is filtered by the preference stored when its
\* handling began, whatever /think commands ran while it was handled.
C9_ResolvedAtStart ==
  /\ pc \notin {"idle", "done", "crashed"} => show_thoughts = pref_at_start
  /\ (pc = "done" /\ api_outcome = "returned") =>
       Concat(FinalReplies) = Delivered(full_response, pref_at_start)

C9_Witness ==
  /\ pc = "done"
  /\ api_outcome = "returned"
  /\ full_response = THINK_ANSWER
  /\ pref_at_start
  /\ ~GetShowThoughts(user_prefs, user_id)
  /\ FinalReplies = <<THINK_ANSWER>>

\* At least one final reply was sent after the indicator was deleted, none empty.
Answered ==
  /\ deleted
  /\ Len(replies) >= 2
  /\ \A k \in 2..Len(replies) : replies[k] # <<>>

\* C10: a message with text whose awaits all succeed ends with at least one
\* non-empty reply sent after the indicator was deleted; a message without text
\* gets no reply and no request.
C10_NeverSilent ==
  /\ [](pc = "done" /\ message_text # <<>> => Answered)
  /\ [](message_text = <<>> => replies = <<>> /\ requests = 0 /\ pc \in {"idle", "done"})
  /\ (pc = "indicator") ~> (pc = "crashed" \/ (pc = "done" /\ Answered))

C10_Witness ==
  /\ pc = "done"
  /\ message_text # <<>>
  /\ ~show_thoughts
  /\ full_response = NESTED
  /\ FinalReplies = <<MSG_ONLY_THOUGHTS>>

=============================================================================
